---------------------------- MODULE Spec2Model ----------------------------
(***************************************************************************)
(* JamMatch AI service (src/ai-service/app.py): the /compatibility         *)
(* handler, the algorithmic scorer, the AI scorer and its response parser. *)
(*                                                                         *)
(* Strings are sequences of symbols.  A symbol is one character, or one    *)
(* fixed chunk of characters that the operations used here (strip, split,  *)
(* startswith, replace, the -?\d+ scan, slicing) never cut: a literal of   *)
(* the source, a name, a genre, the markers "SCORE:" and "REASONING:".     *)
(* A profile is a Python dict: a function whose DOMAIN is the set of keys  *)
(* the request carries.                                                    *)
(***************************************************************************)
EXTENDS Integers, Sequences, FiniteSets, TLC

VARIABLES
    model_loaded,      \* app.py:62   result of load_ai_model() at import
    ai_pipeline,       \* app.py:23   the text-generation handle, or "None"
    pc,                \* position of the handler of the current request
    request,           \* the POST body of the current request
    response,          \* what the handler returned (status 0: nothing yet)
    inference,         \* app.py:164  "not called", "returned" or "raised"
    generated_text,    \* app.py:165  the text the inference call returned
    ai_response,       \* app.py:168, 182  the text handed to parse_ai_response
    parsed,            \* app.py:171, 206  the pair it returned (<<>>: none yet)
    ai_error,          \* app.py:109  the exception the AI scorer raised
    inference_calls,   \* calls of ai_pipeline made for the current request
    algorithmic_runs,  \* calls of calculate_basic_compatibility, same
    log                \* logger lines written for the current request

vars == <<model_loaded, ai_pipeline, pc, request, response, inference,
          generated_text, ai_response, parsed, ai_error, inference_calls,
          algorithmic_runs, log>>

----------------------------------------------------------------------------
(* Python built-ins used by the source *)

Range(s) == {s[i] : i \in DOMAIN s}

\* the cap left out
MinUncapped(a, b) == a

Min(a, b) == IF a <= b THEN a ELSE b

Max(a, b) == IF a >= b THEN a ELSE b

\* the difference left signed
AbsMissing(a) == a

Abs(a) == IF a >= 0 THEN a ELSE 0 - a

\* list.index(x): zero-based position of the first occurrence (the caller
\* checks membership: Python raises ValueError when there is none)
ListIndex(list, x) ==
    (CHOOSE i \in DOMAIN list :
        list[i] = x /\ \A j \in 1..(i - 1) : list[j] # x) - 1

\* sep.join(list) for a list of one-symbol strings
RECURSIVE Join(_, _)
Join(list, sep) ==
    IF list = <<>> THEN <<>>
    ELSE IF Len(list) = 1 THEN <<list[1]>>
    ELSE <<list[1], sep>> \o Join(Tail(list), sep)

\* the orders in which iterating a Python set may yield its elements
SetOrders(S) == {s \in [1..Cardinality(S) -> S] : Range(s) = S}

\* str.lower(), character by character
LowerIdentity(s) == s

UpperToLower == [A |-> "a", L |-> "l", N |-> "n", Y |-> "y"]

LowerChar(c) == IF c \in DOMAIN UpperToLower THEN UpperToLower[c] ELSE c

Lower(s) == [i \in DOMAIN s |-> LowerChar(s[i])]

\* str(n) / f"{n}" for an integer: its decimal digits, "-" first if negative
DigitChars == <<"0", "1", "2", "3", "4", "5", "6", "7", "8", "9">>

RECURSIVE NatStr(_)
NatStr(n) ==
    IF n < 10 THEN <<DigitChars[n + 1]>>
    ELSE NatStr(n \div 10) \o <<DigitChars[(n % 10) + 1]>>

IntStr(n) == IF n < 0 THEN <<"-">> \o NatStr(0 - n) ELSE NatStr(n)

\* the outcome of a call: a value, or a raised exception
Return(v) == [ok |-> TRUE, value |-> v]

Raise(e) == [ok |-> FALSE, exc |-> e]

\* s[n:]
DropFirst(s, n) == IF n >= Len(s) THEN <<>> ELSE SubSeq(s, n + 1, Len(s))

Whitespace == {" ", "\n", "\t", "\r"}

\* str.strip(): leading and trailing whitespace removed
RECURSIVE LStrip(_)
LStrip(s) ==
    IF s # <<>> /\ Head(s) \in Whitespace THEN LStrip(Tail(s)) ELSE s

RECURSIVE RStrip(_)
RStrip(s) ==
    IF s # <<>> /\ s[Len(s)] \in Whitespace
    THEN RStrip(SubSeq(s, 1, Len(s) - 1)) ELSE s

Strip(s) == RStrip(LStrip(s))

\* str.split('\n'): the lines, at least one
RECURSIVE SplitLines(_)
SplitLines(s) ==
    IF "\n" \notin Range(s) THEN <<s>>
    ELSE LET i == CHOOSE k \in DOMAIN s :
                      s[k] = "\n" /\ \A j \in 1..(k - 1) : s[j] # "\n"
         IN  <<SubSeq(s, 1, i - 1)>> \o SplitLines(DropFirst(s, i))

\* str.startswith(marker) and str.replace(marker, '') for a one-symbol marker
StartsWith(s, marker) == s # <<>> /\ Head(s) = marker

Remove(s, marker) == SelectSeq(s, LAMBDA c : c # marker)

\* sep.join(list) for a list of strings
RECURSIVE JoinStrings(_, _)
JoinStrings(list, sep) ==
    IF list = <<>> THEN <<>>
    ELSE IF Len(list) = 1 THEN list[1]
    ELSE list[1] \o <<sep>> \o JoinStrings(Tail(list), sep)

IsDigit(c) == c \in Range(DigitChars)

\* re.search(r'-?\d+', s): the leftmost match, its digits taken greedily;
\* <<>> when nothing matches
MatchAt(s, i) ==
    LET first == IF s[i] = "-" THEN i + 1 ELSE i
        RECURSIVE DigitsEnd(_)
        DigitsEnd(k) ==
            IF k + 1 <= Len(s) /\ IsDigit(s[k + 1]) THEN DigitsEnd(k + 1) ELSE k
    IN  IF first <= Len(s) /\ IsDigit(s[first])
        THEN SubSeq(s, i, DigitsEnd(first))
        ELSE <<>>

SearchInt(s) ==
    LET hits == {i \in DOMAIN s : MatchAt(s, i) # <<>>}
    IN  IF hits = {} THEN <<>>
        ELSE MatchAt(s, CHOOSE i \in hits : \A j \in hits : i <= j)

\* int(s) for an optionally signed string of digits
RECURSIVE NatValue(_)
NatValue(s) ==
    IF s = <<>> THEN 0
    ELSE 10 * NatValue(SubSeq(s, 1, Len(s) - 1))
         + ListIndex(DigitChars, s[Len(s)])

IntValue(s) == IF Head(s) = "-" THEN 0 - NatValue(Tail(s)) ELSE NatValue(s)

----------------------------------------------------------------------------
(* The request bodies the model sends *)

Fields == {"name", "genres", "instruments", "experience", "location"}

NameValues == {"Alice"}

GenreValues == {<<"Rock", "Pop">>, <<"Rock", "Jazz">>}

InstrumentValues == {<<"Guitar">>}

\* the four recognised levels of the algorithmic scorer, and one that is not
ExperienceValues == {"beginner", "intermediate", "professional", "expert"}

LocationValues == {<<"N", "Y">>, <<"n", "y">>, <<"L", "A">>}

FullProfiles ==
    [name : NameValues, genres : GenreValues, instruments : InstrumentValues,
     experience : ExperienceValues, location : LocationValues]

\* a dict carrying the keys F of profile p
Restrict(p, F) == [f \in F |-> p[f]]

Profiles == {Restrict(p, F) : p \in FullProfiles, F \in SUBSET Fields}

\* a body that is no JSON, or a JSON object carrying user1, user2, both or
\* neither
RequestBodies ==
    {[json |-> FALSE, data |-> <<>>]}
    \cup {[json |-> TRUE, data |-> <<>>]}
    \cup {[json |-> TRUE, data |-> [user1 |-> p]] : p \in Profiles}
    \cup {[json |-> TRUE, data |-> [user2 |-> p]] : p \in Profiles}
    \cup {[json |-> TRUE, data |-> [user1 |-> p, user2 |-> q]] :
            p \in Profiles, q \in Profiles}

----------------------------------------------------------------------------
(* calculate_basic_compatibility, app.py:212-244 *)

experience_levels == <<"beginner", "intermediate", "advanced", "professional">>

ExperienceIndexUnranked(level) ==
    IF level \in Range(experience_levels)
    THEN Return(ListIndex(experience_levels, level))
    ELSE Return(0 - 1)

\* app.py:223-224: experience_levels.index(level) raises ValueError for a
\* level that is not in the list
ExperienceIndex(level) ==
    IF level \in Range(experience_levels)
    THEN Return(ListIndex(experience_levels, level))
    ELSE Raise("ValueError")

\* the shared genres counted along user1's list, repeats included, instead
\* of as a set
calculate_basic_compatibility_listwise(user1, user2) ==
    LET common_genres == SelectSeq(user1["genres"],
                                   LAMBDA g : g \in Range(user2["genres"]))
        genre_score == Min(Len(common_genres) * 10, 30)
        user1_exp == ExperienceIndex(user1["experience"])
        user2_exp == ExperienceIndex(user2["experience"])
    IN  IF ~user1_exp.ok THEN user1_exp
        ELSE IF ~user2_exp.ok THEN user2_exp
        ELSE
        LET exp_diff == Abs(user1_exp.value - user2_exp.value)
            exp_score == IF exp_diff = 0 THEN 20
                         ELSE IF exp_diff = 1 THEN 10
                         ELSE 5
        IN  IF "location" \notin DOMAIN user1 \/ "location" \notin DOMAIN user2
            THEN Raise("KeyError")
            ELSE
            LET location_score ==
                    IF Lower(user1["location"]) = Lower(user2["location"])
                    THEN 50 ELSE 10
            IN  Return(Min(0 + genre_score + exp_score + location_score, 100))

calculate_basic_compatibility(user1, user2) ==
    LET common_genres == Range(user1["genres"]) \cap Range(user2["genres"])
        genre_score == Min(Cardinality(common_genres) * 10, 30)
        user1_exp == ExperienceIndex(user1["experience"])
        user2_exp == ExperienceIndex(user2["experience"])
    IN  IF ~user1_exp.ok THEN user1_exp
        ELSE IF ~user2_exp.ok THEN user2_exp
        ELSE
        LET exp_diff == Abs(user1_exp.value - user2_exp.value)
            exp_score == IF exp_diff = 0 THEN 20
                         ELSE IF exp_diff = 1 THEN 10
                         ELSE 5
        IN  IF "location" \notin DOMAIN user1 \/ "location" \notin DOMAIN user2
            THEN Raise("KeyError")
            ELSE
            LET location_score ==
                    IF Lower(user1["location"]) = Lower(user2["location"])
                    THEN 50 ELSE 10
            IN  Return(Min(0 + genre_score + exp_score + location_score, 100))

(* generate_basic_reasoning, app.py:246-256; genre_order is the order in   *)
(* which the set of shared genres is iterated by ', '.join                 *)
generate_basic_reasoning(user1, user2, score, genre_order) ==
    <<"Compatibility analysis for ", user1["name"], " and ", user2["name"],
      ":", "\n", "- Shared musical genres: ">>
    \o (IF genre_order # <<>> THEN Join(genre_order, ", ") ELSE <<"None">>)
    \o <<"\n", "- Experience levels: ", user1["experience"], " and ",
         user2["experience"], "\n", "- Location compatibility: ",
         (IF Lower(user1["location"]) = Lower(user2["location"])
          THEN "Same city" ELSE "Different locations"),
         "\n", "- Overall compatibility score: ">>
    \o IntStr(score) \o <<"/100">>

----------------------------------------------------------------------------
(* parse_ai_response, app.py:182-210 *)

DefaultScore == 50

DefaultReasoning == <<"AI analysis completed with fallback parsing.">>

ClampScoreUnclamped(n) == n

\* app.py:197
ClampScore(n) == Min(Max(n, 1), 100)

\* a SCORE: line that sets the score only while no earlier line has set it
ScoreOfLineKeepFirst(line, score) ==
    LET score_text == Strip(Remove(line, "SCORE:"))
        score_match == SearchInt(score_text)
    IN  IF score_match # <<>> /\ score = DefaultScore
        THEN ClampScore(IntValue(score_match)) ELSE score

\* app.py:192-197: the score a SCORE: line sets, or the running one
ScoreOfLine(line, score) ==
    LET score_text == Strip(Remove(line, "SCORE:"))
        score_match == SearchInt(score_text)
    IN  IF score_match # <<>> THEN ClampScore(IntValue(score_match)) ELSE score

\* a REASONING: line whose remainder is not stripped
ReasoningOfLineUnstripped(lines, line) ==
    LET reasoning == Remove(line, "REASONING:")
    IN  IF line \notin Range(lines) THEN Raise("ValueError")
        ELSE LET remaining_lines ==
                     DropFirst(lines, ListIndex(lines, line) + 1)
             IN  IF remaining_lines # <<>>
                 THEN Return(reasoning \o <<" ">>
                             \o Strip(JoinStrings(remaining_lines, " ")))
                 ELSE Return(reasoning)

\* app.py:199-203: the reasoning a REASONING: line sets; lines.index(line)
\* looks the stripped line up among the unstripped ones and raises
\* ValueError when it is not one of them
ReasoningOfLine(lines, line) ==
    LET reasoning == Strip(Remove(line, "REASONING:"))
    IN  IF line \notin Range(lines) THEN Raise("ValueError")
        ELSE LET remaining_lines ==
                     DropFirst(lines, ListIndex(lines, line) + 1)
             IN  IF remaining_lines # <<>>
                 THEN Return(reasoning \o <<" ">>
                             \o Strip(JoinStrings(remaining_lines, " ")))
                 ELSE Return(reasoning)

\* app.py:189-206: the loop from line i on, with the running score
RECURSIVE ParseLines(_, _, _)
ParseLines(lines, i, score) ==
    IF i > Len(lines) THEN Return(<<score, DefaultReasoning>>)
    ELSE LET line == Strip(lines[i])
         IN  IF StartsWith(line, "SCORE:")
             THEN ParseLines(lines, i + 1, ScoreOfLine(line, score))
             ELSE IF StartsWith(line, "REASONING:")
             THEN LET r == ReasoningOfLine(lines, line)
                  IN  IF r.ok THEN Return(<<score, r.value>>) ELSE r
             ELSE ParseLines(lines, i + 1, score)

parse_ai_response_uncaught(text) ==
    ParseLines(SplitLines(text), 1, DefaultScore)

\* app.py:184-210: whatever the body raises is caught, and the defaults
\* are returned
parse_ai_response(text) ==
    LET body == ParseLines(SplitLines(text), 1, DefaultScore)
    IN  IF body.ok THEN body ELSE Return(<<DefaultScore, DefaultReasoning>>)

----------------------------------------------------------------------------
(* calculate_ai_compatibility, app.py:128-180 *)

\* dict.get(key, default)
Get(user, key, default) == IF key \in DOMAIN user THEN user[key] ELSE default

\* app.py:135-141 and 143-149, one musician's lines (the model sends no bio)
MusicianLines(title, user) ==
    <<title, "\n", "- Name: ", user["name"], "\n", "- Genres: ">>
    \o Join(user["genres"], ", ")
    \o <<"\n", "- Instruments: ">> \o Join(user["instruments"], ", ")
    \o <<"\n", "- Experience: ", user["experience"], "\n", "- Location: ">>
    \o Get(user, "location", <<"Not specified">>)
    \o <<"\n", "- Bio: ", "Not provided", "\n">>

\* app.py:133-160
BuildPrompt(user1, user2) ==
    <<"Analyze the musical compatibility between these two musicians and provide a compatibility score from 1-100.",
      "\n", "\n">>
    \o MusicianLines("Musician 1:", user1) \o <<"\n">>
    \o MusicianLines("Musician 2:", user2) \o <<"\n">>
    \o <<"Consider factors like:", "\n",
         "1. Musical genre compatibility and overlap", "\n",
         "2. Instrument complementarity for band formation", "\n",
         "3. Experience level compatibility", "\n",
         "4. Geographic proximity for collaboration", "\n",
         "5. Musical style and personality fit based on available information",
         "\n", "\n",
         "Provide your analysis in this exact format:", "\n",
         "SCORE:", " ", "[number from 1-100]", "\n",
         "REASONING:", " ",
         "[detailed explanation of the compatibility analysis]">>

\* app.py:168: the part of the generated text after its first len(prompt)
\* characters, stripped
AiResponseOf(prompt, text) == Strip(DropFirst(text, Len(prompt)))

\* app.py:162-180; outcome is what ai_pipeline(prompt, ...) did: it
\* returned response[0]['generated_text'] or raised.  Whatever is raised
\* inside the try is logged and raised again
calculate_ai_compatibility(user1, user2, outcome) ==
    LET prompt == BuildPrompt(user1, user2)
    IN  IF ~outcome.ok THEN outcome
        ELSE LET text == AiResponseOf(prompt, outcome.value)
                 result == parse_ai_response(text)
             IN  IF ~result.ok THEN result
                 ELSE Return([score |-> result.value[1],
                              reasoning |-> result.value[2]])

----------------------------------------------------------------------------
(* The inference capability: what ai_pipeline may do when called *)

MaxTextLen == 4

TextAlphabet == {"SCORE:", "REASONING:", " ", "\n", "7", "x"}

\* every text of at most MaxTextLen symbols
AllTexts == UNION {[1..n -> TextAlphabet] : n \in 0..MaxTextLen}

\* model outputs of the tests (test_ai_service.py:170, 181, 190, 199, 208,
\* 217, 235), shortened
SampleTexts ==
    {<<"SCORE:", " ", "8", "5", "\n", "REASONING:", " ", "x">>,
     <<"SCORE:", " ", "7", "2">>,
     <<"SCORE:", " ", "1", "5", "0", "\n", "REASONING:", " ", "x">>,
     <<"SCORE:", " ", "-", "1", "0", "\n", "REASONING:", " ", "x">>,
     <<"x">>,
     <<"SCORE:", " ", "7", "8", "\n", "REASONING:", " ", "x", "\n", "x", "\n", "x">>}

\* the profile whose requests are answered with every text of AllTexts; the
\* other requests with SampleTexts
ProbeProfile ==
    [name |-> "Alice", genres |-> <<"Rock", "Pop">>,
     instruments |-> <<"Guitar">>, experience |-> "intermediate",
     location |-> <<"N", "Y">>]

Continuations(user1, user2) ==
    IF user1 = ProbeProfile /\ user2 = ProbeProfile
    THEN AllTexts \cup SampleTexts ELSE SampleTexts

InferenceFailures == {"RuntimeError", "TimeoutError"}

\* the pipeline raises, or returns the prompt followed by a continuation
\* (transformers' text-generation default), or a text that does not echo the
\* prompt (the mock of test_ai_service.py:235)
InferenceOutcomes(user1, user2) ==
    {Raise(e) : e \in InferenceFailures}
    \cup {Return(BuildPrompt(user1, user2) \o t) : t \in Continuations(user1, user2)}
    \cup {Return(<<"PROMPT_TEXT_HERE", "\n">> \o t) : t \in Continuations(user1, user2)}

----------------------------------------------------------------------------
(* The handler of POST /compatibility, app.py:73-126 *)

NoResponse == [status |-> 0]

ErrorResponse(code, message) == [status |-> code, error |-> message]

AiResponseMislabelled(ai_result) ==
    [status |-> 200,
     compatibility_score |-> ai_result.score,
     reasoning |-> ai_result.reasoning,
     model_used |-> "algorithmic_fallback",
     fallback_used |-> TRUE]

\* app.py:102-108 (the timestamp, which nothing reads, is left out of the
\* responses)
AiResponse(ai_result) ==
    [status |-> 200,
     compatibility_score |-> ai_result.score,
     reasoning |-> ai_result.reasoning,
     model_used |-> "mistral_ai",
     fallback_used |-> FALSE]

\* app.py:116-122
FallbackResponse(score, reasoning) ==
    [status |-> 200,
     compatibility_score |-> score,
     reasoning |-> reasoning,
     model_used |-> "algorithmic_fallback",
     fallback_used |-> TRUE]

\* app.py:124-126
InternalServerError == ErrorResponse(500, <<"Internal server error">>)

required_fields_reordered == <<"experience", "instruments", "genres", "name">>

\* app.py:92
required_fields == <<"name", "genres", "instruments", "experience">>

\* the required fields a profile lacks, in the order the loop checks them
MissingFields(user) ==
    SelectSeq(required_fields, LAMBDA f : f \notin DOMAIN user)

Init ==
    /\ \E loaded \in BOOLEAN :
          /\ model_loaded = loaded
          /\ ai_pipeline = IF loaded THEN "pipeline" ELSE "None"
    /\ pc = "idle"
    /\ request = [json |-> FALSE, data |-> <<>>]
    /\ response = NoResponse
    /\ inference = "not called"
    /\ generated_text = <<>>
    /\ ai_response = <<>>
    /\ parsed = <<>>
    /\ ai_error = "None"
    /\ inference_calls = 0
    /\ algorithmic_runs = 0
    /\ log = <<>>

\* a request arrives
Receive ==
    /\ pc = "idle"
    /\ \E body \in RequestBodies : request' = body
    /\ pc' = "validate"
    /\ UNCHANGED <<model_loaded, ai_pipeline, response, inference,
                   generated_text, ai_response, parsed, ai_error,
                   inference_calls, algorithmic_runs, log>>

\* app.py:76-96
Validate ==
    /\ pc = "validate"
    /\ LET data == request.data
           missing == MissingFields(data["user1"]) \o MissingFields(data["user2"])
       IN  IF ~request.json
           THEN /\ response' = ErrorResponse(400,
                      <<"Invalid JSON data or missing Content-Type header">>)
                /\ pc' = "done"
           ELSE IF "user1" \notin DOMAIN data \/ "user2" \notin DOMAIN data
           THEN /\ response' = ErrorResponse(400, <<"Missing user profile data">>)
                /\ pc' = "done"
           ELSE IF missing # <<>>
           THEN /\ response' = ErrorResponse(400,
                      <<"Missing required field: ", Head(missing)>>)
                /\ pc' = "done"
           ELSE /\ response' = response
                /\ pc' = "try_ai"
    /\ UNCHANGED <<model_loaded, ai_pipeline, request, inference,
                   generated_text, ai_response, parsed, ai_error,
                   inference_calls, algorithmic_runs, log>>

\* a fallback that first goes back for another AI attempt
FallbackRetriesAI ==
    /\ pc = "fallback"
    /\ ai_error # "None"
    /\ inference_calls < 2
    /\ pc' = "try_ai"
    /\ UNCHANGED <<model_loaded, ai_pipeline, request, response, inference,
                   generated_text, ai_response, parsed, ai_error,
                   inference_calls, algorithmic_runs, log>>

\* app.py:112-126
Fallback ==
    /\ pc = "fallback"
    /\ LET user1 == request.data["user1"]
           user2 == request.data["user2"]
           score == calculate_basic_compatibility(user1, user2)
       IN  IF score.ok
           THEN \E genre_order \in
                     SetOrders(Range(user1["genres"]) \cap Range(user2["genres"])) :
                    /\ response' = FallbackResponse(score.value,
                                       generate_basic_reasoning(
                                           user1, user2, score.value, genre_order))
                    /\ log' = log
           ELSE /\ response' = InternalServerError
                /\ log' = Append(log, "error: Error calculating compatibility")
    /\ algorithmic_runs' = algorithmic_runs + 1
    /\ pc' = "done"
    /\ UNCHANGED <<model_loaded, ai_pipeline, request, inference,
                   generated_text, ai_response, parsed, ai_error,
                   inference_calls>>

CaughtNever(exc) == FALSE

CaughtOnlyRuntimeError(exc) == exc = "RuntimeError"

\* app.py:109: `except Exception` catches every exception the AI scorer
\* raises
CaughtByAiExcept(exc) == TRUE

\* app.py:99-110 with the capability there: one call of the AI scorer
TryAI ==
    /\ pc = "try_ai"
    /\ model_loaded /\ ai_pipeline # "None"
    /\ LET user1 == request.data["user1"]
           user2 == request.data["user2"]
       IN  \E outcome \in InferenceOutcomes(user1, user2) :
             LET ai_result == calculate_ai_compatibility(user1, user2, outcome)
             IN  /\ inference' = IF outcome.ok THEN "returned" ELSE "raised"
                 /\ generated_text' = IF outcome.ok THEN outcome.value ELSE <<>>
                 /\ ai_response' = IF outcome.ok
                                    THEN AiResponseOf(BuildPrompt(user1, user2),
                                                      outcome.value)
                                    ELSE <<>>
                 /\ parsed' = IF ai_result.ok
                               THEN <<ai_result.value.score,
                                      ai_result.value.reasoning>>
                               ELSE <<>>
                 /\ IF ai_result.ok
                    THEN /\ response' = AiResponse(ai_result.value)
                         /\ pc' = "done"
                         /\ ai_error' = ai_error
                         /\ log' = log
                    ELSE IF CaughtByAiExcept(ai_result.exc)
                    THEN /\ response' = response
                         /\ pc' = "fallback"
                         /\ ai_error' = ai_result.exc
                         /\ log' = log \o <<"error: AI model inference failed",
                                "warning: AI analysis failed, falling back to algorithmic">>
                    ELSE /\ response' = InternalServerError
                         /\ pc' = "done"
                         /\ ai_error' = ai_result.exc
                         /\ log' = log \o <<"error: AI model inference failed",
                                "error: Error calculating compatibility">>
    /\ inference_calls' = inference_calls + 1
    /\ UNCHANGED <<model_loaded, ai_pipeline, request, algorithmic_runs>>

\* app.py:99 with the capability missing: straight to the fallback
SkipAI ==
    /\ pc = "try_ai"
    /\ ~(model_loaded /\ ai_pipeline # "None")
    /\ pc' = "fallback"
    /\ UNCHANGED <<model_loaded, ai_pipeline, request, response, inference,
                   generated_text, ai_response, parsed, ai_error,
                   inference_calls, algorithmic_runs, log>>

\* the response is sent; nothing of the request is kept (app.py keeps no
\* per-request state outside the handler's locals)
Respond ==
    /\ pc = "done"
    /\ pc' = "idle"
    /\ request' = [json |-> FALSE, data |-> <<>>]
    /\ response' = NoResponse
    /\ inference' = "not called"
    /\ generated_text' = <<>>
    /\ ai_response' = <<>>
    /\ parsed' = <<>>
    /\ ai_error' = "None"
    /\ inference_calls' = 0
    /\ algorithmic_runs' = 0
    /\ log' = <<>>
    /\ UNCHANGED <<model_loaded, ai_pipeline>>

Next == Receive \/ Validate \/ TryAI \/ SkipAI \/ Fallback \/ Respond

Spec == Init /\ [][Next]_vars

----------------------------------------------------------------------------
(* The algorithmic scorer on its own: the handler at its fallback step     *)
(* (app.py:112-122), for every pair of validated profiles                  *)

MaxGenres == 4

GenreNames == <<"Rock", "Pop", "Jazz", "Folk", "Classical", "Blues", "Metal">>

\* every set of the first MaxGenres genres as a list without repeats, and
\* two lists that repeat a genre
ScorerGenreLists ==
    {SelectSeq(SubSeq(GenreNames, 1, MaxGenres), LAMBDA g : g \in S) :
        S \in SUBSET {GenreNames[i] : i \in 1..MaxGenres}}
    \cup {<<"Rock", "Rock">>, <<"Pop", "Rock", "Pop">>}

ScorerProfiles ==
    [name : NameValues, genres : ScorerGenreLists,
     instruments : InstrumentValues,
     experience : Range(experience_levels) \cup {"expert"},
     location : LocationValues]

InitAlgorithmic ==
    /\ model_loaded = FALSE
    /\ ai_pipeline = "None"
    /\ pc = "fallback"
    /\ \E p \in ScorerProfiles, q \in ScorerProfiles :
          request = [json |-> TRUE, data |-> [user1 |-> p, user2 |-> q]]
    /\ response = NoResponse
    /\ inference = "not called"
    /\ generated_text = <<>>
    /\ ai_response = <<>>
    /\ parsed = <<>>
    /\ ai_error = "None"
    /\ inference_calls = 0
    /\ algorithmic_runs = 0
    /\ log = <<>>

NextAlgorithmic == Fallback

SpecAlgorithmic == InitAlgorithmic /\ [][NextAlgorithmic]_vars

----------------------------------------------------------------------------
(* The response parser on its own: parse_ai_response called with a text,   *)
(* as calculate_ai_compatibility (app.py:171) and the tests                *)
(* (test_ai_service.py:168-227) call it                                    *)

MaxParseLen == 4

ParserAlphabet == {"SCORE:", "REASONING:", " ", "\n", "-", "0", "1", "x"}

\* every text of at most MaxParseLen symbols
ShortTexts == UNION {[1..n -> ParserAlphabet] : n \in 0..MaxParseLen}

\* f"SCORE: {s}\nREASONING: {r}", the format the prompt asks for
\* (app.py:158-160) and the tests render (test_ai_service.py:170-171)
Rendered(s, r) ==
    <<"SCORE:", " ">> \o IntStr(s) \o <<"\n", "REASONING:", " ">> \o r

MaxReasoningLen == 3

ReasoningAlphabet == {"x", "y", " ", "\t", "REASONING:", "SCORE:"}

\* the non-empty reasonings without newline of at most MaxReasoningLen
\* symbols
Reasonings == UNION {[1..n -> ReasoningAlphabet] : n \in 1..MaxReasoningLen}

RenderedTexts == {Rendered(s, r) : s \in 1..100, r \in Reasonings}

\* longer texts: marker lines with surrounding whitespace, several SCORE:
\* lines, a SCORE: line after the REASONING: line, empty lines after the
\* REASONING: line, REASONING: lines that are equal once stripped
LongTexts ==
    {<<"SCORE:", " ", "8", "5", "\n", " ", "REASONING:", " ", "x">>,
     <<"SCORE:", " ", "8", "5", "\n", "REASONING:", " ", "x", " ", "\n", "y">>,
     <<" ", "SCORE:", " ", "8", "5", " ", "\n", "REASONING:", " ", "x">>,
     <<"SCORE:", " ", "1", "5", "0", "\n", "\t", "REASONING:", " ", "x">>,
     <<"SCORE:", " ", "7", "\n", "SCORE:", " ", "9", "\n", "REASONING:", " ", "x">>,
     <<"SCORE:", " ", "7", "\n", "SCORE:", " ", "x", "\n", "REASONING:", " ", "x">>,
     <<"REASONING:", " ", "x", "\n", "SCORE:", " ", "7">>,
     <<"SCORE:", " ", "7", "\n", "REASONING:", " ", "x", "\n", "SCORE:", " ", "9">>,
     <<"SCORE:", " ", "7", "\n", "REASONING:", " ", "x", "\n", "\n">>,
     <<"SCORE:", " ", "7", "\n", "REASONING:", "\n", "x", "\n", "y">>,
     <<"x", " ", "SCORE:", " ", "7", "\n", "y", " ", "REASONING:", " ", "x">>,
     <<"SCORE:", " ", "a", "b", "c", " ", "4", "2", "%", "\n", "REASONING:", " ", "x">>,
     <<"SCORE:", " ", "-", "-", "5", "\n", "REASONING:", " ", "x">>,
     <<"SCORE:", " ", "7", "\n", "REASONING:", " ", "x", "\n", "REASONING:", " ", "x">>,
     <<" ", "REASONING:", " ", "x", "\n", "SCORE:", " ", "7", "\n", "REASONING:", " ", "x">>}

ParserTexts == ShortTexts \cup RenderedTexts \cup LongTexts \cup SampleTexts

InitParser ==
    /\ model_loaded = FALSE
    /\ ai_pipeline = "None"
    /\ pc = "parse"
    /\ request = [json |-> FALSE, data |-> <<>>]
    /\ response = NoResponse
    /\ inference = "not called"
    /\ generated_text = <<>>
    /\ ai_response \in ParserTexts
    /\ parsed = <<>>
    /\ ai_error = "None"
    /\ inference_calls = 0
    /\ algorithmic_runs = 0
    /\ log = <<>>

\* app.py:171, test_ai_service.py:173: score, reasoning = parse_ai_response(..)
ParseResponse ==
    /\ pc = "parse"
    /\ LET result == parse_ai_response(ai_response)
       IN  IF result.ok
           THEN /\ parsed' = result.value
                /\ pc' = "parsed"
                /\ ai_error' = ai_error
           ELSE /\ parsed' = parsed
                /\ pc' = "parse raised"
                /\ ai_error' = result.exc
    /\ UNCHANGED <<model_loaded, ai_pipeline, request, response, inference,
                   generated_text, ai_response, inference_calls,
                   algorithmic_runs, log>>

NextParser == ParseResponse

SpecParser == InitParser /\ [][NextParser]_vars

----------------------------------------------------------------------------
(* Requests handled at the same time (test_performance.py:74-135 posts from *)
(* five threads).  Each handler has its own locals: under SpecConcurrent    *)
(* every per-request variable is a function of the handler, and             *)
(* model_loaded and ai_pipeline are the module globals all handlers see.    *)
(* A handler takes one step at a time: the read of the globals at           *)
(* app.py:99 and the call of the global ai_pipeline at app.py:164 are       *)
(* separate steps, and other handlers may run between them.                 *)

MaxHandlers == 2

Handlers == 1..MaxHandlers

\* the locals of a handler that has no request
IdleLocal ==
    [pc |-> "idle", request |-> [json |-> FALSE, data |-> <<>>],
     response |-> NoResponse, inference |-> "not called",
     generated_text |-> <<>>, ai_response |-> <<>>, parsed |-> <<>>,
     ai_error |-> "None", inference_calls |-> 0, algorithmic_runs |-> 0,
     log |-> <<>>]

Local(h) ==
    [pc |-> pc[h], request |-> request[h], response |-> response[h],
     inference |-> inference[h], generated_text |-> generated_text[h],
     ai_response |-> ai_response[h], parsed |-> parsed[h],
     ai_error |-> ai_error[h], inference_calls |-> inference_calls[h],
     algorithmic_runs |-> algorithmic_runs[h], log |-> log[h]]

\* handler h's locals become l; no other handler's locals change
SetLocal(h, l) ==
    /\ pc' = [pc EXCEPT ![h] = l.pc]
    /\ request' = [request EXCEPT ![h] = l.request]
    /\ response' = [response EXCEPT ![h] = l.response]
    /\ inference' = [inference EXCEPT ![h] = l.inference]
    /\ generated_text' = [generated_text EXCEPT ![h] = l.generated_text]
    /\ ai_response' = [ai_response EXCEPT ![h] = l.ai_response]
    /\ parsed' = [parsed EXCEPT ![h] = l.parsed]
    /\ ai_error' = [ai_error EXCEPT ![h] = l.ai_error]
    /\ inference_calls' = [inference_calls EXCEPT ![h] = l.inference_calls]
    /\ algorithmic_runs' = [algorithmic_runs EXCEPT ![h] = l.algorithmic_runs]
    /\ log' = [log EXCEPT ![h] = l.log]

\* app.py:76-96 on a handler's locals
ValidateLocal(l) ==
    LET data == l.request.data
        missing == MissingFields(data["user1"]) \o MissingFields(data["user2"])
    IN  IF ~l.request.json
        THEN [l EXCEPT !.pc = "done",
                       !.response = ErrorResponse(400,
                           <<"Invalid JSON data or missing Content-Type header">>)]
        ELSE IF "user1" \notin DOMAIN data \/ "user2" \notin DOMAIN data
        THEN [l EXCEPT !.pc = "done",
                       !.response = ErrorResponse(400, <<"Missing user profile data">>)]
        ELSE IF missing # <<>>
        THEN [l EXCEPT !.pc = "done",
                       !.response = ErrorResponse(400,
                           <<"Missing required field: ", Head(missing)>>)]
        ELSE [l EXCEPT !.pc = "check_ai"]

\* app.py:99: `if model_loaded and ai_pipeline`, a read of the two globals
CheckCapabilityLocal(l, loaded, pipeline) ==
    [l EXCEPT !.pc = IF loaded /\ pipeline # "None" THEN "call_ai" ELSE "fallback"]

\* app.py:101-110 and 162-180: the call of the global ai_pipeline, which
\* raises TypeError when the global is None by now, and what follows it
CallInferenceLocal(l, pipeline, outcome) ==
    LET user1 == l.request.data["user1"]
        user2 == l.request.data["user2"]
        called == IF pipeline = "None" THEN Raise("TypeError") ELSE outcome
        ai_result == calculate_ai_compatibility(user1, user2, called)
        after == [l EXCEPT
            !.inference = IF called.ok THEN "returned" ELSE "raised",
            !.generated_text = IF called.ok THEN called.value ELSE <<>>,
            !.ai_response = IF called.ok
                            THEN AiResponseOf(BuildPrompt(user1, user2), called.value)
                            ELSE <<>>,
            !.inference_calls = l.inference_calls + 1]
    IN  IF ai_result.ok
        THEN [after EXCEPT
                 !.pc = "done",
                 !.response = AiResponse(ai_result.value),
                 !.parsed = <<ai_result.value.score, ai_result.value.reasoning>>]
        ELSE IF CaughtByAiExcept(ai_result.exc)
        THEN [after EXCEPT
                 !.pc = "fallback",
                 !.ai_error = ai_result.exc,
                 !.log = l.log \o <<"error: AI model inference failed",
                            "warning: AI analysis failed, falling back to algorithmic">>]
        ELSE [after EXCEPT
                 !.pc = "done",
                 !.response = InternalServerError,
                 !.ai_error = ai_result.exc,
                 !.log = l.log \o <<"error: AI model inference failed",
                            "error: Error calculating compatibility">>]

\* app.py:112-126 on a handler's locals
FallbackLocal(l, genre_order) ==
    LET user1 == l.request.data["user1"]
        user2 == l.request.data["user2"]
        score == calculate_basic_compatibility(user1, user2)
    IN  IF score.ok
        THEN [l EXCEPT
                 !.pc = "done",
                 !.algorithmic_runs = l.algorithmic_runs + 1,
                 !.response = FallbackResponse(score.value,
                     generate_basic_reasoning(user1, user2, score.value, genre_order))]
        ELSE [l EXCEPT
                 !.pc = "done",
                 !.algorithmic_runs = l.algorithmic_runs + 1,
                 !.response = InternalServerError,
                 !.log = Append(l.log, "error: Error calculating compatibility")]

\* the orders in which the shared genres of a request may be listed
GenreOrders(body) ==
    SetOrders(Range(body.data["user1"]["genres"])
              \cap Range(body.data["user2"]["genres"]))

\* the global handle set to None once a call has failed
PipelineDroppedOnFailure(pipeline, l) ==
    IF l.inference = "raised" THEN "None" ELSE pipeline

\* app.py:128-180: calculate_ai_compatibility declares `global ai_pipeline`
\* (app.py:130) and only reads it; the handle stays what load_ai_model
\* (app.py:43) made it, whatever the locals l the call ended with
PipelineAfterCall(pipeline, l) == pipeline

\* the bodies and the inference outcomes of the concurrent requests
ExpertProfile == [ProbeProfile EXCEPT !.experience = "expert"]

ConcurrentBodies ==
    {[json |-> FALSE, data |-> <<>>],
     [json |-> TRUE, data |-> [user1 |-> ProbeProfile, user2 |-> ProbeProfile]],
     [json |-> TRUE, data |-> [user1 |-> ProbeProfile, user2 |-> ExpertProfile]],
     [json |-> TRUE,
      data |-> [user1 |-> Restrict(ProbeProfile, Fields \ {"genres"}),
                user2 |-> ProbeProfile]]}

ConcurrentOutcomes(body) ==
    {Raise("RuntimeError"),
     Return(BuildPrompt(body.data["user1"], body.data["user2"])
            \o <<"SCORE:", " ", "8", "5", "\n", "REASONING:", " ", "x">>),
     Return(BuildPrompt(body.data["user1"], body.data["user2"]) \o <<"x">>)}

InitConcurrent ==
    /\ \E loaded \in BOOLEAN :
          /\ model_loaded = loaded
          /\ ai_pipeline = IF loaded THEN "pipeline" ELSE "None"
    /\ pc = [h \in Handlers |-> IdleLocal.pc]
    /\ request = [h \in Handlers |-> IdleLocal.request]
    /\ response = [h \in Handlers |-> IdleLocal.response]
    /\ inference = [h \in Handlers |-> IdleLocal.inference]
    /\ generated_text = [h \in Handlers |-> IdleLocal.generated_text]
    /\ ai_response = [h \in Handlers |-> IdleLocal.ai_response]
    /\ parsed = [h \in Handlers |-> IdleLocal.parsed]
    /\ ai_error = [h \in Handlers |-> IdleLocal.ai_error]
    /\ inference_calls = [h \in Handlers |-> IdleLocal.inference_calls]
    /\ algorithmic_runs = [h \in Handlers |-> IdleLocal.algorithmic_runs]
    /\ log = [h \in Handlers |-> IdleLocal.log]

ReceiveC(h) ==
    /\ pc[h] = "idle"
    /\ \E body \in ConcurrentBodies :
          SetLocal(h, [Local(h) EXCEPT !.pc = "validate", !.request = body])
    /\ UNCHANGED <<model_loaded, ai_pipeline>>

ValidateC(h) ==
    /\ pc[h] = "validate"
    /\ SetLocal(h, ValidateLocal(Local(h)))
    /\ UNCHANGED <<model_loaded, ai_pipeline>>

CheckCapabilityC(h) ==
    /\ pc[h] = "check_ai"
    /\ SetLocal(h, CheckCapabilityLocal(Local(h), model_loaded, ai_pipeline))
    /\ UNCHANGED <<model_loaded, ai_pipeline>>

CallInferenceC(h) ==
    /\ pc[h] = "call_ai"
    /\ \E outcome \in ConcurrentOutcomes(request[h]) :
          LET l == CallInferenceLocal(Local(h), ai_pipeline, outcome)
          IN  /\ SetLocal(h, l)
              /\ ai_pipeline' = PipelineAfterCall(ai_pipeline, l)
    /\ UNCHANGED model_loaded

FallbackC(h) ==
    /\ pc[h] = "fallback"
    /\ \E genre_order \in GenreOrders(request[h]) :
          SetLocal(h, FallbackLocal(Local(h), genre_order))
    /\ UNCHANGED <<model_loaded, ai_pipeline>>

RespondC(h) ==
    /\ pc[h] = "done"
    /\ SetLocal(h, IdleLocal)
    /\ UNCHANGED <<model_loaded, ai_pipeline>>

NextConcurrent ==
    \E h \in Handlers :
        \/ ReceiveC(h)
        \/ ValidateC(h)
        \/ CheckCapabilityC(h)
        \/ CallInferenceC(h)
        \/ FallbackC(h)
        \/ RespondC(h)

SpecConcurrent == InitConcurrent /\ [][NextConcurrent]_vars

----------------------------------------------------------------------------
(* The claims *)

User1 == request.data["user1"]

User2 == request.data["user2"]

HasBothUsers == request.json /\ {"user1", "user2"} \subseteq DOMAIN request.data

FourFields == {"name", "genres", "instruments", "experience"}

FiveFields == FourFields \cup {"location"}

\* both profiles passed the presence check
Validated ==
    HasBothUsers /\ FourFields \subseteq DOMAIN User1 /\ FourFields \subseteq DOMAIN User2

Recognised(level) ==
    level \in {"beginner", "intermediate", "advanced", "professional"}

AiAvailable == model_loaded /\ ai_pipeline # "None"

SharedGenres == Range(User1["genres"]) \cap Range(User2["genres"])

\* the text handed to the parser: the generated text minus its first
\* len(prompt) symbols, stripped
AiResponseText == Strip(DropFirst(generated_text, Len(BuildPrompt(User1, User2))))

HasLine(text, marker) ==
    \E i \in DOMAIN SplitLines(text) : StartsWith(Strip(SplitLines(text)[i]), marker)

\* C1: with two five-field profiles of recognised levels, when the AI
\* capability is unavailable or the AI scorer raised, the request ends with
\* HTTP 200 carrying the algorithmic score and reasoning, labelled
\* algorithmic_fallback with fallback_used = true.
C1_FallbackSucceeds ==
    (/\ pc = "done"
     /\ HasBothUsers
     /\ DOMAIN User1 = FiveFields /\ DOMAIN User2 = FiveFields
     /\ Recognised(User1["experience"]) /\ Recognised(User2["experience"])
     /\ (~AiAvailable \/ ai_error # "None"))
    => /\ response.status = 200
       /\ response.model_used = "algorithmic_fallback"
       /\ response.fallback_used = TRUE
       /\ algorithmic_runs = 1
       /\ response.compatibility_score =
              calculate_basic_compatibility(User1, User2).value
       /\ \E order \in SetOrders(SharedGenres) :
              response.reasoning = generate_basic_reasoning(
                  User1, User2, response.compatibility_score, order)

\* the AI scorer raised, and the request still ended with the fallback result
C1_Witness ==
    /\ pc = "done"
    /\ HasBothUsers
    /\ DOMAIN User1 = FiveFields /\ DOMAIN User2 = FiveFields
    /\ AiAvailable /\ inference = "raised" /\ ai_error = "TimeoutError"
    /\ response.status = 200
    /\ response.fallback_used = TRUE

\* C2: when the AI scorer returned without raising, the response carries
\* exactly the score and reasoning parsed from the model output, labelled
\* mistral_ai with fallback_used = false, and the algorithmic scorer did
\* not run.
C2_AiResultReturned ==
    (pc = "done" /\ inference = "returned" /\ ai_error = "None")
    => /\ response =
              [status |-> 200,
               compatibility_score |-> parse_ai_response(AiResponseText).value[1],
               reasoning |-> parse_ai_response(AiResponseText).value[2],
               model_used |-> "mistral_ai",
               fallback_used |-> FALSE]
       /\ algorithmic_runs = 0

\* the model answered "SCORE: 85 / REASONING: x" and that is the response
C2_Witness ==
    /\ pc = "done"
    /\ inference = "returned"
    /\ AiAvailable
    /\ response.status = 200
    /\ response.compatibility_score = 85
    /\ response.reasoning = <<"x">>
    /\ response.model_used = "mistral_ai"
    /\ algorithmic_runs = 0

\* C3 as stated: a finished request is a 200, or a 400 raised before any
\* scoring began.  Stated for the requests whose validated profiles carry a
\* location, so that the missing location of C5 plays no part in it.
C3_OnlySuccessOrValidationError ==
    (/\ pc = "done"
     /\ Validated => ("location" \in DOMAIN User1 /\ "location" \in DOMAIN User2))
    => \/ response.status = 200
       \/ /\ response.status = 400
          /\ inference_calls = 0
          /\ algorithmic_runs = 0

\* C3 amended: a finished request is a 200, a 400 raised before any scoring
\* began, or the generic 500 of a failed algorithmic scorer; a failure of
\* the inference call alone never makes the response an error.
C3_SuccessValidationOrScorerError ==
    pc = "done"
    => /\ \/ response.status = 200
          \/ /\ response.status = 400
             /\ inference_calls = 0
             /\ algorithmic_runs = 0
          \/ /\ response = [status |-> 500, error |-> <<"Internal server error">>]
             /\ algorithmic_runs = 1
             /\ \/ ~Recognised(User1["experience"])
                \/ ~Recognised(User2["experience"])
                \/ "location" \notin DOMAIN User1
                \/ "location" \notin DOMAIN User2
       /\ (/\ inference = "raised"
           /\ Recognised(User1["experience"]) /\ Recognised(User2["experience"])
           /\ "location" \in DOMAIN User1 /\ "location" \in DOMAIN User2)
          => response.status = 200

\* the inference call raised and the algorithmic scorer failed after it
C3_Witness ==
    /\ pc = "done"
    /\ inference = "raised"
    /\ algorithmic_runs = 1
    /\ response.status = 500

\* the order in which the handler checks the required fields
CheckOrder ==
    <<<<"user1", "name">>, <<"user1", "genres">>, <<"user1", "instruments">>,
      <<"user1", "experience">>, <<"user2", "name">>, <<"user2", "genres">>,
      <<"user2", "instruments">>, <<"user2", "experience">>>>

Lacks(i) == CheckOrder[i][2] \notin DOMAIN request.data[CheckOrder[i][1]]

\* C4: a profile lacking name, genres, instruments or experience ends the
\* request with HTTP 400 'Missing required field: <field>' naming the first
\* missing field in check order, with neither the inference capability nor
\* the algorithmic scorer invoked, whatever the availability flag.
C4_MissingFieldRejected ==
    (pc = "done" /\ HasBothUsers /\ \E i \in DOMAIN CheckOrder : Lacks(i))
    => LET first == CHOOSE i \in DOMAIN CheckOrder :
                        Lacks(i) /\ \A j \in 1..(i - 1) : ~Lacks(j)
       IN  /\ response = [status |-> 400,
                          error |-> <<"Missing required field: ",
                                      CheckOrder[first][2]>>]
           /\ inference = "not called"
           /\ inference_calls = 0
           /\ algorithmic_runs = 0

\* the AI is available, user1 lacks experience only, user2 lacks name: the
\* message names experience
C4_Witness ==
    /\ pc = "done"
    /\ AiAvailable
    /\ HasBothUsers
    /\ DOMAIN User1 = FiveFields \ {"experience"}
    /\ "name" \notin DOMAIN User2
    /\ response.status = 400
    /\ response.error = <<"Missing required field: ", "experience">>

\* C5 as stated: a request that reaches the algorithmic scorer with a
\* profile without location ends with HTTP 400 'Missing required field:
\* location'.  Stated for recognised experience levels, so that the missing
\* location is all the scorer can fail on.
C5_MissingLocationIsValidationError ==
    (/\ pc = "done"
     /\ algorithmic_runs = 1
     /\ Recognised(User1["experience"]) /\ Recognised(User2["experience"])
     /\ ("location" \notin DOMAIN User1 \/ "location" \notin DOMAIN User2))
    => response = [status |-> 400,
                   error |-> <<"Missing required field: ", "location">>]

\* C6: the compatibility_score of every successful response is an integer
\* from 1 to 100.
C6_ScoreInRange ==
    (pc = "done" /\ response.status = 200)
    => response.compatibility_score \in 1..100

\* the model answered "SCORE: 150 ..." and the response carries 100
C6_Witness ==
    /\ pc = "done"
    /\ response.status = 200
    /\ response.model_used = "mistral_ai"
    /\ HasLine(AiResponseText, "SCORE:")
    /\ SearchInt(Remove(SplitLines(AiResponseText)[1], "SCORE:")) = <<"1", "5", "0">>
    /\ response.compatibility_score = 100

\* C7 as stated: the reasoning of every successful response is non-empty.
C7_ReasoningNonEmpty ==
    (pc = "done" /\ response.status = 200) => response.reasoning # <<>>

\* C8: once the inference call returned text the AI scorer succeeded: the
\* response is the ai-labelled 200 with fallback_used = false, a missing
\* SCORE: line gives the default score and a missing REASONING: line the
\* default reasoning, and the algorithmic scorer did not run; the AI scorer
\* failed only if the inference call raised.
C8_MalformedTextNeverFails ==
    /\ inference = "returned"
       => /\ pc = "done"
          /\ ai_error = "None"
          /\ response.status = 200
          /\ response.model_used = "mistral_ai"
          /\ response.fallback_used = FALSE
          /\ algorithmic_runs = 0
          /\ ~HasLine(AiResponseText, "SCORE:")
             => response.compatibility_score = 50
          /\ ~HasLine(AiResponseText, "REASONING:")
             => response.reasoning =
                    <<"AI analysis completed with fallback parsing.">>
    /\ ai_error # "None" => inference = "raised"

\* the model echoed the prompt and continued with unstructured text
C8_Witness ==
    /\ pc = "done"
    /\ inference = "returned"
    /\ generated_text = BuildPrompt(User1, User2) \o <<"x", " ", "x">>
    /\ response.status = 200
    /\ response.compatibility_score = 50
    /\ response.reasoning = <<"AI analysis completed with fallback parsing.">>

\* C9: with an unrecognised experience level in either profile, a run of
\* the algorithmic scorer ends the request with the generic HTTP 500 and no
\* score; the 500 comes from the algorithmic scorer only, and the same
\* profiles get the ai-labelled 200 when the AI scorer succeeds.
C9_InvalidExperienceIsInternalError ==
    (/\ pc = "done"
     /\ Validated
     /\ (~Recognised(User1["experience"]) \/ ~Recognised(User2["experience"])))
    => /\ algorithmic_runs = 1
          => response = [status |-> 500, error |-> <<"Internal server error">>]
       /\ response.status = 500 => algorithmic_runs = 1
       /\ inference = "returned"
          => /\ response.status = 200
             /\ response.model_used = "mistral_ai"

\* user2's level is unrecognised, both profiles carry a location, and the
\* fallback ended in the 500
C9_Witness ==
    /\ pc = "done"
    /\ Validated
    /\ Recognised(User1["experience"])
    /\ User2["experience"] = "expert"
    /\ "location" \in DOMAIN User1 /\ "location" \in DOMAIN User2
    /\ algorithmic_runs = 1
    /\ response.status = 500

LevelRank == [beginner |-> 0, intermediate |-> 1, advanced |-> 2, professional |-> 3]

ExperiencePoints(a, b) ==
    LET d == IF LevelRank[a] >= LevelRank[b]
             THEN LevelRank[a] - LevelRank[b] ELSE LevelRank[b] - LevelRank[a]
    IN  CASE d = 0 -> 20 [] d = 1 -> 10 [] OTHER -> 5

Folded == [N |-> "n", Y |-> "y", L |-> "l", A |-> "a", n |-> "n", y |-> "y",
           l |-> "l", a |-> "a"]

EqualIgnoringCase(a, b) ==
    Len(a) = Len(b) /\ \A i \in DOMAIN a : Folded[a[i]] = Folded[b[i]]

\* C10: for profiles with recognised levels and a location the algorithmic
\* score is min(10 * |shared genres|, 30) + (20, 10, 5 for a level distance
\* of 0, 1, >= 2) + (50 for locations equal ignoring case, else 10), at
\* most 100; one shared genre, same level, same city give 80, and no shared
\* genre, levels two apart, different cities give 15.
C10_ScoreFormula ==
    (/\ pc = "done"
     /\ Recognised(User1["experience"]) /\ Recognised(User2["experience"]))
    => /\ response.status = 200
       /\ LET genre == IF 10 * Cardinality(SharedGenres) <= 30
                       THEN 10 * Cardinality(SharedGenres) ELSE 30
              level == ExperiencePoints(User1["experience"], User2["experience"])
              place == IF EqualIgnoringCase(User1["location"], User2["location"])
                       THEN 50 ELSE 10
              total == genre + level + place
          IN  response.compatibility_score = IF total <= 100 THEN total ELSE 100
       /\ (/\ User1["genres"] = <<"Rock", "Pop">>
           /\ User2["genres"] = <<"Rock", "Jazz">>
           /\ User1["experience"] = User2["experience"]
           /\ User1["location"] = User2["location"])
          => response.compatibility_score = 80
       /\ (/\ User1["genres"] = <<"Rock", "Pop">>
           /\ User2["genres"] = <<"Jazz", "Folk">>
           /\ User1["experience"] = "intermediate"
           /\ User2["experience"] = "professional"
           /\ User1["location"] = <<"N", "Y">>
           /\ User2["location"] = <<"L", "A">>)
          => response.compatibility_score = 15

\* two shared genres (one list repeats a genre), levels one apart, and
\* locations that differ in case only: 20 + 10 + 50
C10_Witness ==
    /\ pc = "done"
    /\ User1["genres"] = <<"Rock", "Pop", "Jazz", "Folk">>
    /\ User2["genres"] = <<"Pop", "Rock", "Pop">>
    /\ User1["experience"] = "advanced"
    /\ User2["experience"] = "professional"
    /\ User1["location"] = <<"N", "Y">>
    /\ User2["location"] = <<"n", "y">>
    /\ response.status = 200
    /\ response.compatibility_score = 80

DistinctGenres(user) == Cardinality(Range(user["genres"]))

\* C11 as stated: a profile of a recognised level with at least two
\* (distinct) genres, scored against itself by the algorithmic scorer, gets
\* 90.
C11_SelfScoreIs90 ==
    (/\ pc = "done"
     /\ User1 = User2
     /\ Recognised(User1["experience"])
     /\ DistinctGenres(User1) >= 2)
    => /\ response.status = 200
       /\ response.compatibility_score = 90

\* C11 amended: scored against itself, a profile of a recognised level gets
\* 90 = 20 + 20 + 50 when it has exactly two distinct genres, and 100 =
\* 30 + 20 + 50 when it has three or more: the genre cap of 30 is reached at
\* three shared genres, not at two.
C11_SelfScoreByGenreCount ==
    (/\ pc = "done"
     /\ User1 = User2
     /\ Recognised(User1["experience"]))
    => /\ response.status = 200
       /\ DistinctGenres(User1) = 2 => response.compatibility_score = 90
       /\ DistinctGenres(User1) >= 3 => response.compatibility_score = 100
       /\ DistinctGenres(User1) = 1 => response.compatibility_score = 80
       /\ DistinctGenres(User1) = 0 => response.compatibility_score = 70

\* the profile of the test (two genres) scored against itself: 90
C11_Witness ==
    /\ pc = "done"
    /\ User1 = User2
    /\ User1["genres"] = <<"Rock", "Pop">>
    /\ User1["experience"] = "intermediate"
    /\ response.status = 200
    /\ response.compatibility_score = 90

\* the lines of the text handed to the parser, and those that start with a
\* marker after trimming
Lines == SplitLines(ai_response)

MarkerLines(marker) == {i \in DOMAIN Lines : StartsWith(Strip(Lines[i]), marker)}

ScoreLines == MarkerLines("SCORE:")

ReasoningLines == MarkerLines("REASONING:")

First(S) == CHOOSE i \in S : \A j \in S : i <= j

Last(S) == CHOOSE i \in S : \A j \in S : j <= i

\* the first integer token of a SCORE: line (<<>>: it has none)
Token(i) == SearchInt(Remove(Strip(Lines[i]), "SCORE:"))

Clamped(n) == IF n > 100 THEN 100 ELSE IF n < 1 THEN 1 ELSE n

\* C12 as stated, for a text with one SCORE: line that the scan reaches
\* (no REASONING: line stands before it): when that line carries an integer
\* token n the returned score is n clamped to 1..100.
C12_ScoreIsClampedToken ==
    (/\ pc = "parsed"
     /\ Cardinality(ScoreLines) = 1
     /\ \A j \in ReasoningLines : First(ScoreLines) < j
     /\ Token(First(ScoreLines)) # <<>>)
    => parsed[1] = Clamped(IntValue(Token(First(ScoreLines))))

\* the text up to, and without, its first REASONING: line
BeforeReasoning ==
    JoinStrings(SubSeq(Lines, 1, First(ReasoningLines) - 1), "\n")

\* what stands after the marker on the first REASONING: line
ReasoningRemainder ==
    Strip(Remove(Strip(Lines[First(ReasoningLines)]), "REASONING:"))

IsPrefix(a, b) == Len(a) <= Len(b) /\ SubSeq(b, 1, Len(a)) = a

\* C13 as stated: the defaults apply per field.  With a REASONING: line in
\* the text, whatever its shape, the returned score is the one the lines
\* before it give on their own, and the returned reasoning is the one that
\* line gives (it starts with what the line carries after the marker), with
\* or without a SCORE: line.
C13_DefaultsPerField ==
    (pc = "parsed" /\ ReasoningLines # {})
    => /\ parsed[1] = parse_ai_response(BeforeReasoning).value[1]
       /\ IsPrefix(ReasoningRemainder, parsed[2])
       /\ ReasoningRemainder # <<>> => parsed[2] # DefaultReasoning

\* C14: the parser is total.  The call never ends in an exception; it
\* returns a pair of an integer score and a reasoning text for every text,
\* and the pair of defaults for a text in which no line starts with a marker
\* (the empty text and unstructured text included).
C14_ParserTotal ==
    /\ pc # "parse raised"
    /\ ai_error = "None"
    /\ pc = "parsed"
       => /\ Len(parsed) = 2
          /\ parsed[1] \in Int
          /\ parsed[2] \in Seq(Range(parsed[2]))
          /\ (ScoreLines = {} /\ ReasoningLines = {})
             => parsed = <<50, <<"AI analysis completed with fallback parsing.">>>>

\* unstructured text that mentions both markers inside its lines
C14_Witness ==
    /\ pc = "parsed"
    /\ ai_response = <<"x", " ", "SCORE:", " ", "7", "\n", "y", " ", "REASONING:", " ", "x">>
    /\ parsed = <<50, <<"AI analysis completed with fallback parsing.">>>>

\* the REASONING: line on which the scan stops is, once stripped, not one of
\* the lines of the text: lines.index fails and the parse is abandoned
Abandoned ==
    /\ ReasoningLines # {}
    /\ Strip(Lines[First(ReasoningLines)]) \notin Range(Lines)

\* the SCORE: lines with an integer token
UsableScoreLines == {i \in ScoreLines : Token(i) # <<>>}

\* those of them the scan reaches: the ones before the first REASONING: line
ReachedScoreLines ==
    {i \in UsableScoreLines : \A j \in ReasoningLines : i < j}

ScoreAt(i) == Clamped(IntValue(Token(i)))

\* C16 as stated: the score comes from the first SCORE: line with an
\* integer token, wherever the REASONING: line stands and whatever SCORE:
\* lines follow.  Stated for the texts whose parse is not abandoned, so that
\* the defect of C13 plays no part in it.
C16_FirstScoreLineWins ==
    (pc = "parsed" /\ ~Abandoned /\ UsableScoreLines # {})
    => parsed[1] = ScoreAt(First(UsableScoreLines))

\* C16 amended: the score comes from the last SCORE: line with an integer
\* token among the lines before the first REASONING: line; a SCORE: line
\* after the REASONING: line is never recognised as the score; without such
\* a line, or when the parse is abandoned, the score is 50.
C16_LastScoreLineBeforeReasoningWins ==
    pc = "parsed"
    => parsed[1] = IF Abandoned \/ ReachedScoreLines = {} THEN 50
                   ELSE ScoreAt(Last(ReachedScoreLines))

\* two SCORE: lines before the REASONING: line and one after it: the second
\* decides
C16_Witness ==
    /\ pc = "parsed"
    /\ ai_response = <<"SCORE:", " ", "7", "\n", "SCORE:", " ", "9", "\n",
                       "REASONING:", " ", "x">>
    /\ parsed = <<9, <<"x">>>>

\* C17 as stated: with a REASONING: line in the text the returned reasoning
\* starts with what that line carries after the marker and is trimmed: it
\* neither begins nor ends with whitespace.  Stated for the texts whose
\* parse is not abandoned, so that the defect of C13 plays no part in it.
C17_ReasoningTrimmed ==
    (pc = "parsed" /\ ReasoningLines # {} /\ ~Abandoned)
    => /\ IsPrefix(ReasoningRemainder, parsed[2])
       /\ parsed[2] = Strip(parsed[2])

\* the text read as 'SCORE: {s}\nREASONING: {r}': the digits between the
\* first two symbols and the first newline, and what follows the marker and
\* the space after it
NewlineAt == First({k \in DOMAIN ai_response : ai_response[k] = "\n"})

RenderedDigits == SubSeq(ai_response, 3, NewlineAt - 1)

RenderedScore == NatValue(RenderedDigits)

RenderedReasoning == DropFirst(ai_response, NewlineAt + 2)

\* the text is the rendering of a score in 1..100 and a non-empty reasoning
\* without newline
IsRendered ==
    /\ "\n" \in Range(ai_response)
    /\ NewlineAt >= 4
    /\ \A k \in 3..(NewlineAt - 1) : IsDigit(ai_response[k])
    /\ RenderedScore \in 1..100
    /\ RenderedReasoning # <<>>
    /\ "\n" \notin Range(RenderedReasoning)
    /\ ai_response = Rendered(RenderedScore, RenderedReasoning)

\* C18 as stated: parsing the rendering of s in 1..100 and of a non-empty
\* reasoning r without newline returns (s, r).  Stated for the texts whose
\* parse is not abandoned, so that the defect of C13 plays no part in it,
\* and for an r that does not contain the marker.
C18_RoundTrip ==
    (/\ pc = "parsed"
     /\ IsRendered
     /\ ~Abandoned
     /\ "REASONING:" \notin Range(RenderedReasoning))
    => parsed = <<RenderedScore, RenderedReasoning>>

\* C18 amended: it returns (s, r) when, besides, r neither begins nor ends
\* with whitespace and does not contain the marker REASONING:.
C18_RoundTripOfTrimmedReasoning ==
    (/\ pc = "parsed"
     /\ IsRendered
     /\ RenderedReasoning = Strip(RenderedReasoning)
     /\ "REASONING:" \notin Range(RenderedReasoning))
    => parsed = <<RenderedScore, RenderedReasoning>>

\* 'SCORE: 100\nREASONING: x y' comes back as (100, 'x y')
C18_Witness ==
    /\ pc = "parsed"
    /\ IsRendered
    /\ ai_response = <<"SCORE:", " ", "1", "0", "0", "\n", "REASONING:", " ",
                       "x", " ", "y">>
    /\ parsed = <<100, <<"x", " ", "y">>>>

\* C19 as stated: the text handed to the parser is the generated text
\* without the prompt when the generated text begins with the prompt, and
\* the whole generated text (stripped or not) when it does not.
C19_PromptStrippedOnlyWhenEchoed ==
    (inference = "returned" /\ Validated)
    => IF IsPrefix(BuildPrompt(User1, User2), generated_text)
       THEN ai_response =
                Strip(DropFirst(generated_text, Len(BuildPrompt(User1, User2))))
       ELSE ai_response \in {generated_text, Strip(generated_text)}

\* C20: the algorithmic score does not depend on the order of the two
\* profiles.  The scorer succeeds on (A, B) exactly when it succeeds on
\* (B, A), and then with the same score.
C20_ScoreSymmetric ==
    pc = "done"
    => LET swapped == calculate_basic_compatibility(User2, User1)
       IN  /\ response.status = 200 <=> swapped.ok
           /\ response.status = 200
              => response.compatibility_score = swapped.value

\* two profiles of different levels, genres and cities: the same score in
\* both orders, and a reasoning text that the other order does not give
C20_Witness ==
    /\ pc = "done"
    /\ response.status = 200
    /\ User1["experience"] = "beginner"
    /\ User2["experience"] = "intermediate"
    /\ User1["genres"] = <<"Rock", "Pop", "Jazz">>
    /\ User2["genres"] = <<"Pop", "Jazz", "Folk">>
    /\ User1["location"] # User2["location"]
    /\ response.compatibility_score = 40
    /\ calculate_basic_compatibility(User2, User1).value = 40
    /\ \A order \in SetOrders(SharedGenres) :
           response.reasoning #
               generate_basic_reasoning(User2, User1, 40, order)

\* the locals with which a request ends when its handler runs alone, from
\* the body, the capability as startup left it and the inference outcome
SoloRun(body, loaded, pipeline, outcome, genre_order) ==
    LET received == [IdleLocal EXCEPT !.pc = "validate", !.request = body]
        validated == ValidateLocal(received)
        checked == IF validated.pc = "check_ai"
                   THEN CheckCapabilityLocal(validated, loaded, pipeline)
                   ELSE validated
        called == IF checked.pc = "call_ai"
                  THEN CallInferenceLocal(checked, pipeline, outcome)
                  ELSE checked
    IN  IF called.pc = "fallback"
        THEN FallbackLocal(called, genre_order)
        ELSE called

\* the orders in which a run may list the shared genres: those of the two
\* genre sets when the body passes validation
SoloOrders(body) ==
    IF ValidateLocal([IdleLocal EXCEPT !.request = body]).pc = "check_ai"
    THEN GenreOrders(body) ELSE {<<>>}

\* what the inference call of handler h did
OutcomeOf(h) ==
    IF inference[h] = "raised" THEN Raise(ai_error[h])
    ELSE Return(generated_text[h])

\* C15: no step of a handler changes the availability flag or the inference
\* handle, and whatever the other handlers do in between, a finished handler
\* holds the response (and the locals) its request ends with when run alone
\* with the same inference outcome.
C15_RequestsIndependent ==
    /\ [][model_loaded' = model_loaded /\ ai_pipeline' = ai_pipeline]_vars
    /\ [](\A h \in Handlers :
             pc[h] = "done"
             => \E genre_order \in SoloOrders(request[h]) :
                    Local(h) = SoloRun(request[h], model_loaded, ai_pipeline,
                                       OutcomeOf(h), genre_order))

\* handler 1 has answered from the model while handler 2, whose inference
\* call raised after handler 1's check of the capability, is at its
\* fallback step
C15_Witness ==
    /\ pc[1] = "done"
    /\ response[1].status = 200
    /\ response[1].model_used = "mistral_ai"
    /\ pc[2] = "fallback"
    /\ inference[2] = "raised"
    /\ ai_pipeline = "pipeline"

\* C21 as stated: where the algorithmic scorer is defined its score lies in
\* 0..100 and, the caps of the three components added, in 0..95.
C21_ScoreAtMost95 ==
    (pc = "done" /\ response.status = 200)
    => /\ response.compatibility_score \in 0..100
       /\ response.compatibility_score \in 0..95

\* C21 amended: the score lies in 0..100, more precisely in 15..100: the
\* components are at least 0, 5 and 10 and at most 30, 20 and 50, so the
\* caps add up to 100, which three shared genres, equal levels and equal
\* locations reach; 15 is what no shared genre, levels two or more apart
\* and different locations give.
C21_ScoreBetween15And100 ==
    (pc = "done" /\ response.status = 200)
    => /\ response.compatibility_score \in 15..100
       /\ response.compatibility_score = 100
          <=> /\ Cardinality(SharedGenres) >= 3
              /\ User1["experience"] = User2["experience"]
              /\ EqualIgnoringCase(User1["location"], User2["location"])
       /\ response.compatibility_score = 15
          <=> /\ SharedGenres = {}
              /\ ExperiencePoints(User1["experience"], User2["experience"]) = 5
              /\ ~EqualIgnoringCase(User1["location"], User2["location"])

\* four shared genres, the same level, locations that differ in case only:
\* 30 + 20 + 50 = 100
C21_Witness ==
    /\ pc = "done"
    /\ response.status = 200
    /\ Cardinality(SharedGenres) = 4
    /\ User1["experience"] = "advanced"
    /\ User2["experience"] = "advanced"
    /\ User1["location"] = <<"N", "Y">>
    /\ User2["location"] = <<"n", "y">>
    /\ response.compatibility_score = 100

\* C22: within one request the inference capability is invoked at most
\* once, only for a request that passed validation and only with the
\* capability available; the algorithmic scorer runs at most once, only for
\* a validated request and never before the AI attempt; and from the
\* fallback on no inference call is made and the handler does not return to
\* the AI attempt.
C22_ValidateThenAiThenFallback ==
    /\ [](/\ inference_calls \in {0, 1}
          /\ algorithmic_runs \in {0, 1}
          /\ inference_calls = 1 => (Validated /\ AiAvailable)
          /\ algorithmic_runs = 1 => Validated
          /\ pc \in {"try_ai", "fallback"} => Validated
          /\ pc = "validate" => (inference_calls = 0 /\ algorithmic_runs = 0)
          /\ pc = "try_ai" => (inference_calls = 0 /\ algorithmic_runs = 0)
          /\ (pc = "fallback" /\ AiAvailable)
             => (inference_calls = 1 /\ inference = "raised"))
    /\ [][/\ inference_calls' > inference_calls
             => (pc = "try_ai" /\ algorithmic_runs = 0 /\ AiAvailable)
          /\ algorithmic_runs' > algorithmic_runs => pc = "fallback"
          /\ pc = "fallback"
             => (pc' = "done" /\ inference_calls' = inference_calls)]_vars

\* the one AI attempt failed and the one algorithmic run answered
C22_Witness ==
    /\ pc = "done"
    /\ Validated
    /\ AiAvailable
    /\ inference = "raised"
    /\ inference_calls = 1
    /\ algorithmic_runs = 1
    /\ response.status = 200
    /\ response.fallback_used = TRUE

=============================================================================
